---- MODULE Spec2Model ----
(***************************************************************************)
(* TokenizeRWATemplate: the unified wallet hook (useUnifiedWallet over the *)
(* Web3AuthProvider state and the use-wallet state) and the asset pinning  *)
(* relay (POST /api/pin-image of server.js).                               *)
(***************************************************************************)
EXTENDS Integers, Sequences, FiniteSets, TLC

VARIABLES
    \* ---- Web3AuthProvider React state (Web3AuthProvider.tsx) ----
    isInitialized, isConnected, isLoading, error, provider,
    web3AuthInstance, algorandAccount, userInfo,
    \* ---- positions of the provider's async functions ----
    initPc, loginPc, logoutPc,
    \* ---- web3authConfig.ts module state and the SDK's status ----
    web3authInstance, sdkStatus,
    \* ---- @txnlab/use-wallet-react state ----
    activeAddress,
    \* ---- relay: requests in flight, pinning service, responses ----
    req, calls, pinned, responses,
    \* ---- relay: what this run's clients and pinning service send ----
    served, sentBodies, upstreamFaults,
    \* ---- relay process: startup self-test, clock, /health, CORS ----
    selfTest, now, healthLog, corsEnv, corsLog,
    \* ---- what the last render of a component using the hook got, the
    \* ---- useMemo cache, and the provider values that render read ----
    rendered, memo, renderedFrom,
    \* ---- one formatAmount / parseAmount computation ----
    amountCalc,
    \* ---- initWeb3Auth: its calls in flight, the Web3Auth objects built ----
    initCalls, sdk,
    \* ---- history: whether login was called since the last logout ended ----
    afterLogout

walletVars == <<isInitialized, isConnected, isLoading, error, provider,
                web3AuthInstance, algorandAccount, userInfo,
                initPc, loginPc, logoutPc, web3authInstance, sdkStatus,
                activeAddress>>
relayVars == <<req, calls, pinned, responses>>
envVars == <<served, sentBodies, upstreamFaults>>
serverVars == <<envVars, selfTest, now, healthLog, corsEnv, corsLog>>
hookVars == <<rendered, memo, renderedFrom>>
utilVars == <<amountCalc>>
sdkVars == <<initCalls, sdk>>
historyVars == <<afterLogout>>
vars == <<walletVars, relayVars, serverVars, hookVars, utilVars, sdkVars, historyVars>>

(***************************************************************************)
(* Values                                                                  *)
(***************************************************************************)
\* JavaScript null for strings and handles
Null == "null"
\* JavaScript null for object-valued state (a present object x is <<x>>)
NoObject == <<>>
Some(x) == <<x>>

\* Algorand addresses that either provider may report
Addresses == {"ADDR_X", "ADDR_Y"}
\* secretKey representations; getAlgorandAccount is typed to give Uint8Array
\* an array whose elements are not numbers is still an array
KeyKinds == {"Uint8Array", "numberArray", "otherArray", "other"}
\* Array.isArray(sk)
isArray(sk) == sk \in {"numberArray", "otherArray"}
DerivedKeyKinds == {"Uint8Array"}
Accounts == [address : Addresses, secretKey : DerivedKeyKinds]
\* every account object the hook and the signer helper may be handed
AllAccounts == [address : Addresses, secretKey : KeyKinds]

(***************************************************************************)
(* createWeb3AuthSigner: the signer function, or a throw when the key is   *)
(* neither a Uint8Array nor an array.                                      *)
(***************************************************************************)
Throws == [threw |-> "Web3Auth secretKey is not a Uint8Array (or number[]). Cannot sign transactions."]

createWeb3AuthSigner(account) ==
    IF account.secretKey = "Uint8Array"
    THEN [kind |-> "basicAccountSigner", addr |-> account.address, sk |-> "Uint8Array"]
    ELSE IF isArray(account.secretKey)
    THEN [kind |-> "basicAccountSigner", addr |-> account.address, sk |-> "Uint8Array"]
    ELSE Throws

\* use-wallet's transactionSigner capability
transactionSigner == [kind |-> "walletTransactionSigner"]

(***************************************************************************)
(* useUnifiedWallet: the memoised state computed from both providers.      *)
(* w is the useWeb3Auth() context value, t the useWallet() value.          *)
(***************************************************************************)
\* variant: the social-login branch reports no loading and no error
Web3AuthBranch_Quiet(w) ==
    LET account == w.algorandAccount[1]
        signer  == createWeb3AuthSigner(account)
    IN IF signer = Throws
       THEN Throws
       ELSE [activeAddress |-> account.address,
             signer        |-> Some(signer),
             walletType    |-> "web3auth",
             isConnected   |-> TRUE,
             isLoading     |-> FALSE,
             error         |-> Null,
             web3auth      |-> [algorandAccount |-> w.algorandAccount,
                                userInfo        |-> w.userInfo]]

Web3AuthBranch(w) ==
    LET account == w.algorandAccount[1]
        signer  == createWeb3AuthSigner(account)
    IN IF signer = Throws
       THEN Throws
       ELSE [activeAddress |-> account.address,
             signer        |-> Some(signer),
             walletType    |-> "web3auth",
             isConnected   |-> TRUE,
             isLoading     |-> w.isLoading,
             error         |-> w.error,
             web3auth      |-> [algorandAccount |-> w.algorandAccount,
                                userInfo        |-> w.userInfo]]

\* variant: the traditional branch reports the social-login connection flag
TraditionalBranch_SocialFlag(w, t) ==
    [activeAddress |-> t.activeAddress,
     signer        |-> Some(t.transactionSigner),
     walletType    |-> "traditional",
     isConnected   |-> w.isConnected,
     isLoading     |-> FALSE,
     error         |-> Null,
     web3auth      |-> [algorandAccount |-> NoObject, userInfo |-> Null]]

TraditionalBranch(w, t) ==
    [activeAddress |-> t.activeAddress,
     signer        |-> Some(t.transactionSigner),
     walletType    |-> "traditional",
     isConnected   |-> TRUE,
     isLoading     |-> FALSE,
     error         |-> Null,
     web3auth      |-> [algorandAccount |-> NoObject, userInfo |-> Null]]

\* variant: the no-wallet branch passes the social-login connection flag through
NoWalletBranch_SocialFlag(w) ==
    [activeAddress |-> Null,
     signer        |-> NoObject,
     walletType    |-> Null,
     isConnected   |-> w.isConnected,
     isLoading     |-> w.isLoading,
     error         |-> w.error,
     web3auth      |-> [algorandAccount |-> NoObject, userInfo |-> Null]]

NoWalletBranch(w) ==
    [activeAddress |-> Null,
     signer        |-> NoObject,
     walletType    |-> Null,
     isConnected   |-> FALSE,
     isLoading     |-> w.isLoading,
     error         |-> w.error,
     web3auth      |-> [algorandAccount |-> NoObject, userInfo |-> Null]]

\* variant: the social-login branch is taken on isConnected alone
useUnifiedWallet_ConnectedOnly(w, t) ==
    IF w.isConnected /\ w.algorandAccount # NoObject
    THEN Web3AuthBranch(w)
    ELSE IF w.isConnected
    THEN [NoWalletBranch(w) EXCEPT !.walletType = "web3auth", !.isConnected = TRUE]
    ELSE IF t.activeAddress # Null
    THEN TraditionalBranch(w, t)
    ELSE NoWalletBranch(w)

\* variant: the browser wallet is looked at first
useUnifiedWallet_TraditionalFirst(w, t) ==
    IF t.activeAddress # Null
    THEN TraditionalBranch(w, t)
    ELSE IF w.isConnected /\ w.algorandAccount # NoObject
    THEN Web3AuthBranch(w)
    ELSE NoWalletBranch(w)

useUnifiedWallet(w, t) ==
    IF w.isConnected /\ w.algorandAccount # NoObject
    THEN Web3AuthBranch(w)
    ELSE IF t.activeAddress # Null
    THEN TraditionalBranch(w, t)
    ELSE NoWalletBranch(w)

\* the context values the hook reads in the current state
useWeb3Auth ==
    [isConnected     |-> isConnected,
     isLoading       |-> isLoading,
     isInitialized   |-> isInitialized,
     error           |-> error,
     algorandAccount |-> algorandAccount,
     userInfo        |-> userInfo]

useWallet ==
    [activeAddress |-> activeAddress, transactionSigner |-> transactionSigner]

\* what useUnifiedWallet() returns in the current state
resolve == useUnifiedWallet(useWeb3Auth, useWallet)

\* Home: the call-to-action's enabled style and the connect hint, both from
\* useWallet().activeAddress
Home ==
    [ctaEnabled  |-> useWallet.activeAddress # Null,
     connectHint |-> ~(useWallet.activeAddress # Null)]

\* Layout: the two button states, from useUnifiedWallet().walletType
Layout ==
    [isWeb3AuthActive    |-> resolve.walletType = "web3auth",
     isTraditionalActive |-> resolve.walletType = "traditional"]

\* ConnectWallet: const connected = Boolean(activeAddress), from useWallet()
ConnectWallet == [connected |-> useWallet.activeAddress # Null]

\* variant: the dependency list leaves out isLoading and error
Deps_WithoutLoadingError(w, t) ==
    <<w.isConnected, w.algorandAccount, w.userInfo, t.activeAddress,
      t.transactionSigner>>

\* the useMemo dependency list (login, logout, wallets and activeWallet are
\* not part of the modelled state)
Deps(w, t) ==
    <<w.isConnected, w.algorandAccount, w.isLoading, w.error, w.userInfo,
      t.activeAddress, t.transactionSigner>>

\* a component renders and calls useUnifiedWallet(): useMemo gives the cached
\* state when the dependencies are those of the last render and runs the
\* callback otherwise; an exception thrown inside the callback is what the
\* call gives
Render ==
    /\ LET w     == useWeb3Auth
           t     == useWallet
           state == IF memo # NoObject /\ memo[1].deps = Deps(w, t)
                    THEN memo[1].state
                    ELSE useUnifiedWallet(w, t)
       IN /\ rendered' = Some(state)
          /\ memo' = Some([deps |-> Deps(w, t), state |-> state])
          /\ renderedFrom' = Some([web3auth |-> w, traditional |-> t])
    /\ UNCHANGED walletVars
    /\ UNCHANGED relayVars
    /\ UNCHANGED serverVars
    /\ UNCHANGED utilVars
    /\ UNCHANGED sdkVars
    /\ UNCHANGED historyVars

(***************************************************************************)
(* Web3AuthProvider: initializeWeb3Auth, login, logout.  One action per    *)
(* stretch of code between two awaits.                                     *)
(***************************************************************************)
\* the user-info objects getUserInfo may give
UserInfos == {"info"}
\* the IProvider of a connected Web3Auth instance
TheProvider == "provider"
\* the Web3Auth instance built by initWeb3Auth
TheInstance == "web3auth"

\* getWeb3AuthUserInfo: null when there is no instance or it is not
\* connected, null when getUserInfo throws, the info otherwise
getWeb3AuthUserInfo(threw) ==
    IF web3authInstance = Null \/ sdkStatus # "connected" THEN Null
    ELSE IF threw THEN Null
    ELSE "info"

\* useEffect(() => { initializeWeb3Auth() }, []) up to await initWeb3Auth()
InitStart ==
    /\ initPc = "mount"
    /\ isLoading' = TRUE
    /\ error' = Null
    /\ initPc' = "initWeb3Auth"
    /\ UNCHANGED <<isInitialized, isConnected, provider, web3AuthInstance,
                   algorandAccount, userInfo, loginPc, logoutPc,
                   web3authInstance, sdkStatus, activeAddress>>
    /\ UNCHANGED relayVars
    /\ UNCHANGED serverVars
    /\ UNCHANGED hookVars
    /\ UNCHANGED utilVars
    /\ UNCHANGED sdkVars
    /\ UNCHANGED historyVars

\* initWeb3Auth() throws: no client id (no instance built) or initModal failed
\* (the module keeps the instance it built); catch and finally of the effect
InitWeb3AuthThrows(built) ==
    /\ initPc = "initWeb3Auth"
    /\ web3authInstance' = IF built THEN TheInstance ELSE Null
    /\ sdkStatus' = "not_ready"
    /\ error' = "Failed to initialize Web3Auth"
    /\ isInitialized' = TRUE
    /\ isLoading' = FALSE
    /\ initPc' = "done"
    /\ UNCHANGED <<isConnected, provider, web3AuthInstance, algorandAccount,
                   userInfo, loginPc, logoutPc, activeAddress>>
    /\ UNCHANGED relayVars
    /\ UNCHANGED serverVars
    /\ UNCHANGED hookVars
    /\ UNCHANGED utilVars
    /\ UNCHANGED sdkVars
    /\ UNCHANGED historyVars

\* initWeb3Auth() returns an instance with no session from an earlier visit
InitWeb3AuthReady ==
    /\ initPc = "initWeb3Auth"
    /\ web3authInstance' = TheInstance
    /\ sdkStatus' = "ready"
    /\ web3AuthInstance' = TheInstance
    /\ isInitialized' = TRUE
    /\ isLoading' = FALSE
    /\ initPc' = "done"
    /\ UNCHANGED <<isConnected, error, provider, algorandAccount, userInfo,
                   loginPc, logoutPc, activeAddress>>
    /\ UNCHANGED relayVars
    /\ UNCHANGED serverVars
    /\ UNCHANGED hookVars
    /\ UNCHANGED utilVars
    /\ UNCHANGED sdkVars
    /\ UNCHANGED historyVars

\* initWeb3Auth() returns an instance that is already connected
InitWeb3AuthConnected ==
    /\ initPc = "initWeb3Auth"
    /\ web3authInstance' = TheInstance
    /\ sdkStatus' = "connected"
    /\ web3AuthInstance' = TheInstance
    /\ provider' = TheProvider
    /\ isConnected' = TRUE
    /\ initPc' = "getAlgorandAccount"
    /\ UNCHANGED <<isInitialized, isLoading, error, algorandAccount, userInfo,
                   loginPc, logoutPc, activeAddress>>
    /\ UNCHANGED relayVars
    /\ UNCHANGED serverVars
    /\ UNCHANGED hookVars
    /\ UNCHANGED utilVars
    /\ UNCHANGED sdkVars
    /\ UNCHANGED historyVars

\* await getAlgorandAccount(web3auth.provider) in the effect
InitDeriveAccount ==
    /\ initPc = "getAlgorandAccount"
    /\ \/ \E account \in Accounts :
             /\ algorandAccount' = Some(account)
             /\ error' = error
       \/ /\ error' = "Failed to derive Algorand account. Please reconnect."
          /\ algorandAccount' = algorandAccount
    /\ initPc' = "getUserInfo"
    /\ UNCHANGED <<isInitialized, isConnected, isLoading, provider,
                   web3AuthInstance, userInfo, loginPc, logoutPc,
                   web3authInstance, sdkStatus, activeAddress>>
    /\ UNCHANGED relayVars
    /\ UNCHANGED serverVars
    /\ UNCHANGED hookVars
    /\ UNCHANGED utilVars
    /\ UNCHANGED sdkVars
    /\ UNCHANGED historyVars

\* await getWeb3AuthUserInfo() in the effect, then the rest of the try and finally
InitUserInfo ==
    /\ initPc = "getUserInfo"
    /\ \E threw \in BOOLEAN :
          LET userInformation == getWeb3AuthUserInfo(threw)
          IN userInfo' = IF userInformation # Null THEN userInformation ELSE userInfo
    /\ isInitialized' = TRUE
    /\ isLoading' = FALSE
    /\ initPc' = "done"
    /\ UNCHANGED <<isConnected, error, provider, web3AuthInstance,
                   algorandAccount, loginPc, logoutPc, web3authInstance,
                   sdkStatus, activeAddress>>
    /\ UNCHANGED relayVars
    /\ UNCHANGED serverVars
    /\ UNCHANGED hookVars
    /\ UNCHANGED utilVars
    /\ UNCHANGED sdkVars
    /\ UNCHANGED historyVars

\* variant: login() has no early return and goes on to connect()
LoginNotInitialized_Connects ==
    /\ loginPc = "idle"
    /\ web3AuthInstance = Null \/ ~isInitialized
    /\ isLoading' = TRUE
    /\ error' = Null
    /\ loginPc' = "connect"
    /\ UNCHANGED <<isInitialized, isConnected, provider, web3AuthInstance,
                   algorandAccount, userInfo, initPc, logoutPc,
                   web3authInstance, sdkStatus, activeAddress>>
    /\ UNCHANGED relayVars
    /\ UNCHANGED serverVars
    /\ UNCHANGED hookVars
    /\ UNCHANGED utilVars
    /\ UNCHANGED sdkVars
    /\ UNCHANGED historyVars

\* login(): the two early returns
LoginNotInitialized ==
    /\ loginPc = "idle"
    /\ web3AuthInstance = Null \/ ~isInitialized
    /\ error' = IF web3AuthInstance = Null
                THEN "Web3Auth not initialized"
                ELSE "Web3Auth is still initializing, please try again"
    /\ UNCHANGED <<isInitialized, isConnected, isLoading, provider,
                   web3AuthInstance, algorandAccount, userInfo, initPc, loginPc,
                   logoutPc, web3authInstance, sdkStatus, activeAddress>>
    /\ UNCHANGED relayVars
    /\ UNCHANGED serverVars
    /\ UNCHANGED hookVars
    /\ UNCHANGED utilVars
    /\ UNCHANGED sdkVars
    /\ UNCHANGED historyVars

\* login() up to await web3AuthInstance.connect()
LoginStart ==
    /\ loginPc = "idle"
    /\ web3AuthInstance # Null
    /\ isInitialized
    /\ isLoading' = TRUE
    /\ error' = Null
    /\ loginPc' = "connect"
    /\ UNCHANGED <<isInitialized, isConnected, provider, web3AuthInstance,
                   algorandAccount, userInfo, initPc, logoutPc,
                   web3authInstance, sdkStatus, activeAddress>>
    /\ UNCHANGED relayVars
    /\ UNCHANGED serverVars
    /\ UNCHANGED hookVars
    /\ UNCHANGED utilVars
    /\ UNCHANGED sdkVars
    /\ afterLogout' = IF afterLogout = "never" THEN "never" ELSE "loginSince"

\* connect() gives a provider
LoginConnected ==
    /\ loginPc = "connect"
    /\ sdkStatus' = "connected"
    /\ provider' = TheProvider
    /\ isConnected' = TRUE
    /\ loginPc' = "getAlgorandAccount"
    /\ UNCHANGED <<isInitialized, isLoading, error, web3AuthInstance,
                   algorandAccount, userInfo, initPc, logoutPc,
                   web3authInstance, activeAddress>>
    /\ UNCHANGED relayVars
    /\ UNCHANGED serverVars
    /\ UNCHANGED hookVars
    /\ UNCHANGED utilVars
    /\ UNCHANGED sdkVars
    /\ UNCHANGED historyVars

\* variant: the outer catch of login() only records the error
LoginFailed_OnlyError ==
    /\ loginPc = "connect"
    /\ \E msg \in {"Failed to connect Web3Auth provider", "Login failed"} :
          error' = msg
    /\ isLoading' = FALSE
    /\ loginPc' = "idle"
    /\ UNCHANGED <<isInitialized, isConnected, provider, algorandAccount,
                   web3AuthInstance, userInfo, initPc, logoutPc,
                   web3authInstance, sdkStatus, activeAddress>>
    /\ UNCHANGED relayVars
    /\ UNCHANGED serverVars
    /\ UNCHANGED hookVars
    /\ UNCHANGED utilVars
    /\ UNCHANGED sdkVars
    /\ UNCHANGED historyVars

\* connect() throws or gives null: the outer catch and finally
LoginFailed ==
    /\ loginPc = "connect"
    /\ \E msg \in {"Failed to connect Web3Auth provider", "Login failed"} :
          error' = msg
    /\ isConnected' = FALSE
    /\ provider' = Null
    /\ algorandAccount' = NoObject
    /\ isLoading' = FALSE
    /\ loginPc' = "idle"
    /\ UNCHANGED <<isInitialized, web3AuthInstance, userInfo, initPc, logoutPc,
                   web3authInstance, sdkStatus, activeAddress>>
    /\ UNCHANGED relayVars
    /\ UNCHANGED serverVars
    /\ UNCHANGED hookVars
    /\ UNCHANGED utilVars
    /\ UNCHANGED sdkVars
    /\ UNCHANGED historyVars

\* await getAlgorandAccount(web3authProvider) in login
LoginDeriveAccount ==
    /\ loginPc = "getAlgorandAccount"
    /\ \/ \E account \in Accounts :
             /\ algorandAccount' = Some(account)
             /\ error' = error
       \/ /\ error' = "Failed to derive Algorand account"
          /\ algorandAccount' = algorandAccount
    /\ loginPc' = "getUserInfo"
    /\ UNCHANGED <<isInitialized, isConnected, isLoading, provider,
                   web3AuthInstance, userInfo, initPc, logoutPc,
                   web3authInstance, sdkStatus, activeAddress>>
    /\ UNCHANGED relayVars
    /\ UNCHANGED serverVars
    /\ UNCHANGED hookVars
    /\ UNCHANGED utilVars
    /\ UNCHANGED sdkVars
    /\ UNCHANGED historyVars

\* await getWeb3AuthUserInfo() in login, then finally
LoginUserInfo ==
    /\ loginPc = "getUserInfo"
    /\ \E threw \in BOOLEAN :
          LET userInformation == getWeb3AuthUserInfo(threw)
          IN userInfo' = IF userInformation # Null THEN userInformation ELSE userInfo
    /\ isLoading' = FALSE
    /\ loginPc' = "idle"
    /\ UNCHANGED <<isInitialized, isConnected, error, provider,
                   web3AuthInstance, algorandAccount, initPc, logoutPc,
                   web3authInstance, sdkStatus, activeAddress>>
    /\ UNCHANGED relayVars
    /\ UNCHANGED serverVars
    /\ UNCHANGED hookVars
    /\ UNCHANGED utilVars
    /\ UNCHANGED sdkVars
    /\ UNCHANGED historyVars

\* logout() up to await logoutFromWeb3Auth()
LogoutStart ==
    /\ logoutPc = "idle"
    /\ isLoading' = TRUE
    /\ error' = Null
    /\ logoutPc' = "logoutFromWeb3Auth"
    /\ UNCHANGED <<isInitialized, isConnected, provider, web3AuthInstance,
                   algorandAccount, userInfo, initPc, loginPc,
                   web3authInstance, sdkStatus, activeAddress>>
    /\ UNCHANGED relayVars
    /\ UNCHANGED serverVars
    /\ UNCHANGED hookVars
    /\ UNCHANGED utilVars
    /\ UNCHANGED sdkVars
    /\ UNCHANGED historyVars

\* logoutFromWeb3Auth() returns (also at once when there is no instance)
LogoutDone ==
    /\ logoutPc = "logoutFromWeb3Auth"
    /\ sdkStatus' = IF web3authInstance = Null \/ sdkStatus = "not_ready"
                    THEN sdkStatus ELSE "ready"
    /\ provider' = Null
    /\ isConnected' = FALSE
    /\ algorandAccount' = NoObject
    /\ userInfo' = Null
    /\ isLoading' = FALSE
    /\ logoutPc' = "idle"
    /\ UNCHANGED <<isInitialized, error, web3AuthInstance, initPc, loginPc,
                   web3authInstance, activeAddress>>
    /\ UNCHANGED relayVars
    /\ UNCHANGED serverVars
    /\ UNCHANGED hookVars
    /\ UNCHANGED utilVars
    /\ UNCHANGED sdkVars
    /\ afterLogout' = "noLoginSince"

\* variant: logout() without its finally block on the failure path
LogoutThrows_NoFinally ==
    /\ logoutPc = "logoutFromWeb3Auth"
    /\ web3authInstance # Null
    /\ error' = "Logout failed"
    /\ provider' = Null
    /\ isConnected' = FALSE
    /\ algorandAccount' = NoObject
    /\ userInfo' = Null
    /\ logoutPc' = "idle"
    /\ UNCHANGED <<isInitialized, isLoading, web3AuthInstance, initPc, loginPc,
                   web3authInstance, sdkStatus, activeAddress>>
    /\ UNCHANGED relayVars
    /\ UNCHANGED serverVars
    /\ UNCHANGED hookVars
    /\ UNCHANGED utilVars
    /\ UNCHANGED sdkVars
    /\ afterLogout' = "noLoginSince"

\* web3authInstance.logout() throws: the catch and finally of logout()
LogoutThrows ==
    /\ logoutPc = "logoutFromWeb3Auth"
    /\ web3authInstance # Null
    /\ error' = "Logout failed"
    /\ provider' = Null
    /\ isConnected' = FALSE
    /\ algorandAccount' = NoObject
    /\ userInfo' = Null
    /\ isLoading' = FALSE
    /\ logoutPc' = "idle"
    /\ UNCHANGED <<isInitialized, web3AuthInstance, initPc, loginPc,
                   web3authInstance, sdkStatus, activeAddress>>
    /\ UNCHANGED relayVars
    /\ UNCHANGED serverVars
    /\ UNCHANGED hookVars
    /\ UNCHANGED utilVars
    /\ UNCHANGED sdkVars
    /\ afterLogout' = "noLoginSince"

(***************************************************************************)
(* The browser wallet (use-wallet): its session comes and goes on its own. *)
(***************************************************************************)
WalletConnect ==
    /\ \E a \in Addresses :
          /\ a # activeAddress
          /\ activeAddress' = a
    /\ UNCHANGED <<isInitialized, isConnected, isLoading, error, provider,
                   web3AuthInstance, algorandAccount, userInfo, initPc, loginPc,
                   logoutPc, web3authInstance, sdkStatus>>
    /\ UNCHANGED relayVars
    /\ UNCHANGED serverVars
    /\ UNCHANGED hookVars
    /\ UNCHANGED utilVars
    /\ UNCHANGED sdkVars
    /\ UNCHANGED historyVars

WalletDisconnect ==
    /\ activeAddress # Null
    /\ activeAddress' = Null
    /\ UNCHANGED <<isInitialized, isConnected, isLoading, error, provider,
                   web3AuthInstance, algorandAccount, userInfo, initPc, loginPc,
                   logoutPc, web3authInstance, sdkStatus>>
    /\ UNCHANGED relayVars
    /\ UNCHANGED serverVars
    /\ UNCHANGED hookVars
    /\ UNCHANGED utilVars
    /\ UNCHANGED sdkVars
    /\ UNCHANGED historyVars

\* how many calls of initWeb3Auth() the model admits
MaxInitCalls == 3
InitCalls == 1..MaxInitCalls
\* a call not yet made
NoInitCall == [pc |-> "idle", returned |-> NoObject, modalAtReturn |-> "none"]

\* the rest of the program, which a call of initWeb3Auth() leaves alone
InitCallFrame ==
    /\ UNCHANGED walletVars
    /\ UNCHANGED relayVars
    /\ UNCHANGED serverVars
    /\ UNCHANGED hookVars
    /\ UNCHANGED utilVars
    /\ UNCHANGED historyVars

\* if (web3authInstance) return web3authInstance
InitCallReturnsExisting(c) ==
    /\ initCalls[c].pc = "idle"
    /\ sdk.instance # NoObject
    /\ initCalls' = [initCalls EXCEPT ![c] =
                        [pc |-> "returned", returned |-> sdk.instance,
                         modalAtReturn |-> sdk.modal[sdk.instance[1]]]]
    /\ UNCHANGED sdk
    /\ InitCallFrame

\* no client id: throws before anything is built
InitCallNoClientId(c) ==
    /\ initCalls[c].pc = "idle"
    /\ sdk.instance = NoObject
    /\ ~sdk.clientId
    /\ initCalls' = [initCalls EXCEPT ![c].pc = "threw"]
    /\ UNCHANGED sdk
    /\ InitCallFrame

\* new CommonPrivateKeyProvider(...) or new Web3Auth(...) throws: rethrown
\* by the catch, the module variable still null
InitCallConstructorThrows(c) ==
    /\ initCalls[c].pc = "idle"
    /\ sdk.instance = NoObject
    /\ sdk.clientId
    /\ initCalls' = [initCalls EXCEPT ![c].pc = "threw"]
    /\ UNCHANGED sdk
    /\ InitCallFrame

\* web3authInstance = new Web3Auth(web3AuthConfig), up to await initModal()
InitCallConstruct(c) ==
    /\ initCalls[c].pc = "idle"
    /\ sdk.instance = NoObject
    /\ sdk.clientId
    /\ sdk' = [sdk EXCEPT !.constructed = @ + 1,
                          !.instance = Some(sdk.constructed + 1),
                          !.modal = Append(@, "pending")]
    /\ initCalls' = [initCalls EXCEPT ![c].pc = "initModal"]
    /\ InitCallFrame

\* initModal() resolves: return web3authInstance
InitModalOk(c) ==
    /\ initCalls[c].pc = "initModal"
    /\ sdk.instance # NoObject
    /\ sdk' = [sdk EXCEPT !.modal[sdk.instance[1]] = "ok"]
    /\ initCalls' = [initCalls EXCEPT ![c] =
                        [pc |-> "returned", returned |-> sdk.instance,
                         modalAtReturn |-> "ok"]]
    /\ InitCallFrame

\* initModal() rejects: the catch rethrows and the module keeps the instance
InitModalFails(c) ==
    /\ initCalls[c].pc = "initModal"
    /\ sdk.instance # NoObject
    /\ sdk' = [sdk EXCEPT !.modal[sdk.instance[1]] = "failed"]
    /\ initCalls' = [initCalls EXCEPT ![c].pc = "threw"]
    /\ InitCallFrame

WalletInit ==
    /\ isInitialized = FALSE
    /\ isConnected = FALSE
    /\ isLoading = FALSE
    /\ error = Null
    /\ provider = Null
    /\ web3AuthInstance = Null
    /\ algorandAccount = NoObject
    /\ userInfo = Null
    /\ initPc = "mount"
    /\ loginPc = "idle"
    /\ logoutPc = "idle"
    /\ web3authInstance = Null
    /\ sdkStatus = "not_ready"
    /\ activeAddress = Null

WalletNext ==
    \/ InitStart
    \/ \E built \in BOOLEAN : InitWeb3AuthThrows(built)
    \/ InitWeb3AuthReady
    \/ InitWeb3AuthConnected
    \/ InitDeriveAccount
    \/ InitUserInfo
    \/ LoginNotInitialized
    \/ LoginStart
    \/ LoginConnected
    \/ LoginFailed
    \/ LoginDeriveAccount
    \/ LoginUserInfo
    \/ LogoutStart
    \/ LogoutDone
    \/ LogoutThrows
    \/ WalletConnect
    \/ WalletDisconnect

(***************************************************************************)
(* The asset pinning relay (server.js).  Strings are sequences of tokens,  *)
(* so that trimming, prefixing and stripping are computed.                 *)
(***************************************************************************)
\* how many /api/pin-image requests the model admits
MaxRequests == 2
Requests == 1..MaxRequests

\* multer's limits.fileSize: 10 * 1024 * 1024
fileSizeLimit == 10485760

Whitespace == {" ", "\t"}

RECURSIVE TrimLeft(_)
TrimLeft(str) ==
    IF str # <<>> /\ Head(str) \in Whitespace THEN TrimLeft(Tail(str)) ELSE str

RECURSIVE TrimRight(_)
TrimRight(str) ==
    IF str # <<>> /\ str[Len(str)] \in Whitespace
    THEN TrimRight(SubSeq(str, 1, Len(str) - 1))
    ELSE str

\* String.prototype.trim
trim(str) == TrimRight(TrimLeft(str))

\* a multipart text field: absent (undefined), a string, or (a repeated
\* field) an array
Undefined == [type |-> "undefined", str |-> <<>>]
Str(s) == [type |-> "string", str |-> s]

\* variant: the field is used as sent
safeTrim_Untrimmed(v) == IF v.type = "string" THEN v.str ELSE <<>>

safeTrim(v) == IF v.type = "string" THEN trim(v.str) ELSE <<>>

\* JSON.parse on the texts the model sends: the parsed value, or a SyntaxError
SyntaxError == <<"SyntaxError">>
JSONparse(text) ==
    IF trim(text) = <<"{", "}">> THEN <<"{}">>
    ELSE IF trim(text) = <<"{", "k", ":", "1", "}">> THEN <<"{k:1}">>
    ELSE SyntaxError

\* variant: no try/catch around JSON.parse
safeJsonParse_NoCatch(v, fallback) ==
    IF v.type # "string" \/ trim(v.str) = <<>> THEN fallback
    ELSE JSONparse(v.str)

safeJsonParse(v, fallback) ==
    IF v.type # "string" \/ trim(v.str) = <<>> THEN fallback
    ELSE IF JSONparse(v.str) = SyntaxError THEN fallback
    ELSE JSONparse(v.str)

\* `${a}${b}`
Concat(a, b) == a \o b

\* the uploaded files a client may send: none, two small ones, one over the limit
NoFile == [present |-> FALSE, size |-> 0, buffer |-> <<>>, originalname |-> <<>>]
Files ==
    { NoFile,
      [present |-> TRUE, size |-> 1024, buffer |-> <<"bytes-1">>, originalname |-> <<"a.png">>],
      [present |-> TRUE, size |-> 2048, buffer |-> <<"bytes-2">>, originalname |-> <<>>],
      [present |-> TRUE, size |-> fileSizeLimit + 1, buffer |-> <<"bytes-3">>, originalname |-> <<"big.png">>] }

\* the text fields (req.body) a client may send
Bodies ==
    { [metaName |-> Undefined, metaDescription |-> Undefined, properties |-> Undefined],
      [metaName |-> Str(<<" ", "V", " ">>), metaDescription |-> Str(<<" ", "\t">>),
       properties |-> Str(<<"n", "o", "t">>)],
      [metaName |-> Str(<<" ">>), metaDescription |-> Str(<<"D">>),
       properties |-> Str(<<" ", "{", "k", ":", "1", "}">>)] }

\* a repeated multipart field reaches req.body as an array, not a string
NotAString == [type |-> "array", str |-> <<>>]

\* every kind of value a text field may have: absent, not a string, empty,
\* whitespace only, padded, with inner whitespace
NameValues ==
    { Undefined, NotAString, Str(<<>>), Str(<<" ">>), Str(<<" ", "V", " ">>),
      Str(<<"V", " ", "W">>) }
DescriptionValues == { Undefined, Str(<<"\t", " ">>), Str(<<"D", "\t">>) }
PropertiesValues ==
    { Undefined, NotAString, Str(<<>>), Str(<<" ", "\t">>), Str(<<"n", "o", "t">>),
      Str(<<"{", "k">>), Str(<<"{", "}">>), Str(<<" ", "{", "k", ":", "1", "}">>) }
AllBodies ==
    [metaName : NameValues, metaDescription : DescriptionValues,
     properties : PropertiesValues]

\* JS || on strings: the left operand unless it is empty
OrElse(a, b) == IF a # <<>> THEN a ELSE b

\* the pinning service is content addressed: the hash it returns is a
\* function of the bytes pinned, and is never empty
IpfsHashOf(content) == <<"Qm">> \o content

\* JSON.stringify of the metadata object, as the service receives it
Stringify(metadata) ==
    <<"{name:">> \o metadata.name \o <<",description:">> \o metadata.description
        \o <<",image:">> \o metadata.image
        \o <<",properties:">> \o metadata.properties \o <<"}">>

\* what an upstream call may throw: an axios error carrying the service's
\* error string, one carrying a bare body, a plain Error, a value with nothing
UpstreamErrors ==
    { [dataError |-> <<"pinata says no">>, data |-> <<"{error}">>, message |-> <<"Request failed">>],
      [dataError |-> <<>>, data |-> <<"Bad Gateway">>, message |-> <<"Request failed">>],
      [dataError |-> <<>>, data |-> <<>>, message |-> <<"socket hang up">>],
      [dataError |-> <<>>, data |-> <<>>, message |-> <<>>] }

\* a value that is an object, not a string (a parsed JSON body)
Obj(fields) == <<"[object]">> \o fields

\* every shape of thrown value: also an upstream body whose error field is an
\* object ({error: {reason, details}}) and a JSON body without an error field
AllUpstreamErrors ==
    UpstreamErrors \cup
    { [dataError |-> Obj(<<"reason", "details">>), data |-> Obj(<<"error">>),
       message |-> <<"Request failed with status code 401">>],
      [dataError |-> <<>>, data |-> Obj(<<"message">>),
       message |-> <<"Request failed with status code 500">>],
      [dataError |-> <<>>, data |-> <<>>, message |-> <<"Cannot read properties of undefined">>] }

\* error?.response?.data?.error || error?.response?.data || error?.message || '...'
ErrorMsg(e) ==
    OrElse(e.dataError, OrElse(e.data, OrElse(e.message, <<"Failed to pin to IPFS.">>)))

\* res.status(s).json({ key: value })
JsonResponse(s, key, value) == [status |-> s, json |-> TRUE, key |-> key, value |-> value]

\* locals of the handler before the request arrives
NoRequest ==
    [pc |-> "new", file |-> NoFile, body |-> CHOOSE b \in Bodies : b.metaName = Undefined,
     metaName |-> <<>>, metaDescription |-> <<>>, properties |-> <<>>,
     imageUrl |-> <<>>, metadata |-> NoObject,
     \* the value caught by the handler's catch block, if any
     error |-> NoObject]

\* an upstream event of one request
Event(op, ev, data) == [op |-> op, ev |-> ev, data |-> data]

\* upload.single('file') rejects a file over limits.fileSize with a MulterError;
\* the app has no error middleware, so Express's default handler answers 500
\* with an HTML page and the route handler never runs
MulterRejects(r) ==
    /\ req[r].pc = "new"
    /\ \E f \in Files, b \in sentBodies :
          /\ f.present /\ f.size > fileSizeLimit
          /\ req' = [req EXCEPT ![r] = [@ EXCEPT !.pc = "done", !.file = f, !.body = b]]
    /\ responses' = [responses EXCEPT ![r] =
          Append(@, [status |-> 500, json |-> FALSE, key |-> "html",
                     value |-> <<"MulterError: File too large">>])]
    /\ UNCHANGED <<calls, pinned>>
    /\ UNCHANGED walletVars
    /\ UNCHANGED serverVars
    /\ UNCHANGED hookVars
    /\ UNCHANGED utilVars
    /\ UNCHANGED sdkVars
    /\ UNCHANGED historyVars

\* variant: no check of req.file; reading file.buffer throws a TypeError that
\* the catch block turns into a 500
NoFileUploaded_Unchecked(r) ==
    /\ req[r].pc = "new"
    /\ \E b \in sentBodies :
          req' = [req EXCEPT ![r] = [@ EXCEPT !.pc = "done", !.file = NoFile, !.body = b]]
    /\ responses' = [responses EXCEPT ![r] =
          Append(@, JsonResponse(500, "error", <<"Cannot read properties of undefined">>))]
    /\ UNCHANGED <<calls, pinned>>
    /\ UNCHANGED walletVars
    /\ UNCHANGED serverVars
    /\ UNCHANGED hookVars
    /\ UNCHANGED utilVars
    /\ UNCHANGED sdkVars
    /\ UNCHANGED historyVars

\* if (!file) return res.status(400).json({ error: 'No file uploaded' })
NoFileUploaded(r) ==
    /\ req[r].pc = "new"
    /\ \E b \in sentBodies :
          req' = [req EXCEPT ![r] = [@ EXCEPT !.pc = "done", !.file = NoFile, !.body = b]]
    /\ responses' = [responses EXCEPT ![r] =
          Append(@, JsonResponse(400, "error", <<"No file uploaded">>))]
    /\ UNCHANGED <<calls, pinned>>
    /\ UNCHANGED walletVars
    /\ UNCHANGED serverVars
    /\ UNCHANGED hookVars
    /\ UNCHANGED utilVars
    /\ UNCHANGED sdkVars
    /\ UNCHANGED historyVars

\* variant: the parsed fields are module-level variables, overwritten for the
\* requests still awaiting the file pin
PinImage_SharedFields(r) ==
    /\ req[r].pc = "new"
    /\ \E f \in Files, b \in sentBodies :
          /\ f.present /\ f.size <= fileSizeLimit
          /\ req' = [q \in Requests |->
                IF q = r
                THEN [req[q] EXCEPT !.pc = "pinFileToIPFS", !.file = f, !.body = b,
                          !.metaName = OrElse(safeTrim(b.metaName), <<"NFT Example">>),
                          !.metaDescription = OrElse(safeTrim(b.metaDescription),
                                                     <<"This is an unchangeable NFT">>),
                          !.properties = safeJsonParse(b.properties, <<"{}">>)]
                ELSE IF req[q].pc = "pinFileToIPFS"
                THEN [req[q] EXCEPT
                          !.metaName = OrElse(safeTrim(b.metaName), <<"NFT Example">>)]
                ELSE req[q]]
          /\ calls' = [calls EXCEPT ![r] = Append(@, Event("pinFileToIPFS", "call", f.buffer))]
    /\ UNCHANGED <<pinned, responses>>
    /\ UNCHANGED walletVars
    /\ UNCHANGED serverVars
    /\ UNCHANGED hookVars
    /\ UNCHANGED utilVars
    /\ UNCHANGED sdkVars
    /\ UNCHANGED historyVars

\* the handler from its start to await pinata.pinFileToIPFS(stream, ...)
PinImage(r) ==
    /\ req[r].pc = "new"
    /\ \E f \in Files, b \in sentBodies :
          /\ f.present /\ f.size <= fileSizeLimit
          /\ req' = [req EXCEPT ![r] =
                [@ EXCEPT !.pc = "pinFileToIPFS", !.file = f, !.body = b,
                          !.metaName = OrElse(safeTrim(b.metaName), <<"NFT Example">>),
                          !.metaDescription = OrElse(safeTrim(b.metaDescription),
                                                     <<"This is an unchangeable NFT">>),
                          !.properties = safeJsonParse(b.properties, <<"{}">>)]]
          /\ calls' = [calls EXCEPT ![r] = Append(@, Event("pinFileToIPFS", "call", f.buffer))]
    /\ UNCHANGED <<pinned, responses>>
    /\ UNCHANGED walletVars
    /\ UNCHANGED serverVars
    /\ UNCHANGED hookVars
    /\ UNCHANGED utilVars
    /\ UNCHANGED sdkVars
    /\ UNCHANGED historyVars

\* variant: the metadata object carries the bare hash as its image
PinMetadata_BareHash(r) ==
    /\ req[r].pc = "pinFileToIPFS"
    /\ LET imageResult == IpfsHashOf(req[r].file.buffer)
           imageUrl    == Concat(<<"ipfs://">>, imageResult)
           metadata    == [name        |-> req[r].metaName,
                           description |-> req[r].metaDescription,
                           image       |-> imageResult,
                           properties  |-> req[r].properties]
       IN /\ pinned' = pinned \cup {imageResult}
          /\ req' = [req EXCEPT ![r] = [@ EXCEPT !.pc = "pinJSONToIPFS",
                                                 !.imageUrl = imageUrl,
                                                 !.metadata = Some(metadata)]]
          /\ calls' = [calls EXCEPT ![r] =
                @ \o << Event("pinFileToIPFS", "return", imageResult),
                        Event("pinJSONToIPFS", "call", Stringify(metadata)) >>]
    /\ UNCHANGED responses
    /\ UNCHANGED walletVars
    /\ UNCHANGED serverVars
    /\ UNCHANGED hookVars
    /\ UNCHANGED utilVars
    /\ UNCHANGED sdkVars
    /\ UNCHANGED historyVars

\* pinFileToIPFS resolved: imageUrl, the metadata object, and on to
\* await pinata.pinJSONToIPFS(metadata, ...)
PinMetadata(r) ==
    /\ req[r].pc = "pinFileToIPFS"
    /\ LET imageResult == IpfsHashOf(req[r].file.buffer)
           imageUrl    == Concat(<<"ipfs://">>, imageResult)
           metadata    == [name        |-> req[r].metaName,
                           description |-> req[r].metaDescription,
                           image       |-> imageUrl,
                           properties  |-> req[r].properties]
       IN /\ pinned' = pinned \cup {imageResult}
          /\ req' = [req EXCEPT ![r] = [@ EXCEPT !.pc = "pinJSONToIPFS",
                                                 !.imageUrl = imageUrl,
                                                 !.metadata = Some(metadata)]]
          /\ calls' = [calls EXCEPT ![r] =
                @ \o << Event("pinFileToIPFS", "return", imageResult),
                        Event("pinJSONToIPFS", "call", Stringify(metadata)) >>]
    /\ UNCHANGED responses
    /\ UNCHANGED walletVars
    /\ UNCHANGED serverVars
    /\ UNCHANGED hookVars
    /\ UNCHANGED utilVars
    /\ UNCHANGED sdkVars
    /\ UNCHANGED historyVars

\* variant: a failed file pin is swallowed and the metadata is pinned anyway
PinImageFails_GoesOn(r) ==
    /\ req[r].pc = "pinFileToIPFS"
    /\ \E e \in upstreamFaults :
          LET metadata == [name        |-> req[r].metaName,
                           description |-> req[r].metaDescription,
                           image       |-> <<"ipfs://">>,
                           properties  |-> req[r].properties]
          IN /\ req' = [req EXCEPT ![r] = [@ EXCEPT !.pc = "pinJSONToIPFS",
                                                    !.metadata = Some(metadata)]]
             /\ calls' = [calls EXCEPT ![r] =
                   @ \o << Event("pinFileToIPFS", "throw", ErrorMsg(e)),
                           Event("pinJSONToIPFS", "call", Stringify(metadata)) >>]
    /\ UNCHANGED <<pinned, responses>>
    /\ UNCHANGED walletVars
    /\ UNCHANGED serverVars
    /\ UNCHANGED hookVars
    /\ UNCHANGED utilVars
    /\ UNCHANGED sdkVars
    /\ UNCHANGED historyVars

\* variant: a failed file pin is tried once more
PinImageFails_Retries(r) ==
    /\ req[r].pc = "pinFileToIPFS"
    /\ \E e \in upstreamFaults :
          calls' = [calls EXCEPT ![r] =
                @ \o << Event("pinFileToIPFS", "throw", ErrorMsg(e)),
                        Event("pinFileToIPFS", "call", req[r].file.buffer) >>]
    /\ UNCHANGED <<req, pinned, responses>>
    /\ UNCHANGED walletVars
    /\ UNCHANGED serverVars
    /\ UNCHANGED hookVars
    /\ UNCHANGED utilVars
    /\ UNCHANGED sdkVars
    /\ UNCHANGED historyVars

\* pinFileToIPFS rejected: the catch block
PinImageFails(r) ==
    /\ req[r].pc = "pinFileToIPFS"
    /\ \E e \in upstreamFaults :
          /\ req' = [req EXCEPT ![r] = [@ EXCEPT !.pc = "done", !.error = Some(e)]]
          /\ calls' = [calls EXCEPT ![r] = Append(@, Event("pinFileToIPFS", "throw", ErrorMsg(e)))]
          /\ responses' = [responses EXCEPT ![r] =
                Append(@, JsonResponse(500, "error", ErrorMsg(e)))]
    /\ UNCHANGED pinned
    /\ UNCHANGED walletVars
    /\ UNCHANGED serverVars
    /\ UNCHANGED hookVars
    /\ UNCHANGED utilVars
    /\ UNCHANGED sdkVars
    /\ UNCHANGED historyVars

\* variant: the response carries the image locator
Respond_ImageUrl(r) ==
    /\ req[r].pc = "pinJSONToIPFS"
    /\ LET jsonResult  == IpfsHashOf(Stringify(req[r].metadata[1]))
           metadataUrl == req[r].imageUrl
       IN /\ pinned' = pinned \cup {jsonResult}
          /\ calls' = [calls EXCEPT ![r] = Append(@, Event("pinJSONToIPFS", "return", jsonResult))]
          /\ responses' = [responses EXCEPT ![r] =
                Append(@, JsonResponse(200, "metadataUrl", metadataUrl))]
    /\ req' = [req EXCEPT ![r] = [@ EXCEPT !.pc = "done"]]
    /\ UNCHANGED walletVars
    /\ UNCHANGED serverVars
    /\ UNCHANGED hookVars
    /\ UNCHANGED utilVars
    /\ UNCHANGED sdkVars
    /\ UNCHANGED historyVars

\* pinJSONToIPFS resolved: metadataUrl and the 200 response
Respond(r) ==
    /\ req[r].pc = "pinJSONToIPFS"
    /\ LET jsonResult  == IpfsHashOf(Stringify(req[r].metadata[1]))
           metadataUrl == Concat(<<"ipfs://">>, jsonResult)
       IN /\ pinned' = pinned \cup {jsonResult}
          /\ calls' = [calls EXCEPT ![r] = Append(@, Event("pinJSONToIPFS", "return", jsonResult))]
          /\ responses' = [responses EXCEPT ![r] =
                Append(@, JsonResponse(200, "metadataUrl", metadataUrl))]
    /\ req' = [req EXCEPT ![r] = [@ EXCEPT !.pc = "done"]]
    /\ UNCHANGED walletVars
    /\ UNCHANGED serverVars
    /\ UNCHANGED hookVars
    /\ UNCHANGED utilVars
    /\ UNCHANGED sdkVars
    /\ UNCHANGED historyVars

\* variant: a failed metadata pin unpins the file before answering
PinMetadataFails_Unpins(r) ==
    /\ req[r].pc = "pinJSONToIPFS"
    /\ \E e \in upstreamFaults :
          /\ req' = [req EXCEPT ![r] = [@ EXCEPT !.pc = "done", !.error = Some(e)]]
          /\ calls' = [calls EXCEPT ![r] =
                @ \o << Event("pinJSONToIPFS", "throw", ErrorMsg(e)),
                        Event("unpin", "call", IpfsHashOf(req[r].file.buffer)) >>]
          /\ responses' = [responses EXCEPT ![r] =
                Append(@, JsonResponse(500, "error", ErrorMsg(e)))]
    /\ pinned' = pinned \ {IpfsHashOf(req[r].file.buffer)}
    /\ UNCHANGED walletVars
    /\ UNCHANGED serverVars
    /\ UNCHANGED hookVars
    /\ UNCHANGED utilVars
    /\ UNCHANGED sdkVars
    /\ UNCHANGED historyVars

\* pinJSONToIPFS rejected: the catch block; the pinned file is left as it is
PinMetadataFails(r) ==
    /\ req[r].pc = "pinJSONToIPFS"
    /\ \E e \in upstreamFaults :
          /\ req' = [req EXCEPT ![r] = [@ EXCEPT !.pc = "done", !.error = Some(e)]]
          /\ calls' = [calls EXCEPT ![r] = Append(@, Event("pinJSONToIPFS", "throw", ErrorMsg(e)))]
          /\ responses' = [responses EXCEPT ![r] =
                Append(@, JsonResponse(500, "error", ErrorMsg(e)))]
    /\ UNCHANGED pinned
    /\ UNCHANGED walletVars
    /\ UNCHANGED serverVars
    /\ UNCHANGED hookVars
    /\ UNCHANGED utilVars
    /\ UNCHANGED sdkVars
    /\ UNCHANGED historyVars

RelayInit ==
    /\ req = [r \in Requests |-> NoRequest]
    /\ calls = [r \in Requests |-> <<>>]
    /\ pinned = {}
    /\ responses = [r \in Requests |-> <<>>]

RelayNext ==
    \E r \in served :
        \/ MulterRejects(r)
        \/ NoFileUploaded(r)
        \/ PinImage(r)
        \/ PinMetadata(r)
        \/ PinImageFails(r)
        \/ Respond(r)
        \/ PinMetadataFails(r)

(***************************************************************************)
(* Specifications                                                          *)
(***************************************************************************)
(***************************************************************************)
(* CORS.  An origin is a sequence of tokens: scheme, host labels, port.    *)
(* Two server files exist: one reads FRONTEND_ORIGIN, the other            *)
(* ALLOWED_ORIGINS.                                                        *)
(***************************************************************************)
\* how many requests the CORS layer is shown
MaxCorsRequests == 2

Servers == {"FRONTEND_ORIGIN", "ALLOWED_ORIGINS"}
Schemes == {"http://", "https://"}
Ports == {":5173"}

\* the Origin header: absent, or one of these
NoOrigin == <<>>
Origins ==
    { <<"http://", "localhost", ":5173">>,
      <<"https://", "tokenize", ".example">>,
      <<"https://", "fork", ".vercel.app">>,
      <<"https://", "vercel.app">>,
      <<"https://", "fork", ".vercel.app", ".evil", ".example">>,
      <<"https://", "evil", ".example">>,
      <<"null">> }

\* process.env: an unset variable is the empty text
CorsEnvs ==
    [server : {"FRONTEND_ORIGIN"},
     value : { <<>>, <<" ", "https://", "tokenize", ".example", " ">> }]
    \cup
    [server : {"ALLOWED_ORIGINS"},
     value : { <<>>,
               <<"https://", "tokenize", ".example">>,
               <<"https://", "tokenize", ".example", ",", " ", "*">> }]

\* String.prototype.split(','): the pieces between "," tokens
RECURSIVE split(_, _)
split(text, piece) ==
    IF text = <<>> THEN <<piece>>
    ELSE IF Head(text) = "," THEN <<piece>> \o split(Tail(text), <<>>)
    ELSE split(Tail(text), Append(piece, Head(text)))

Range(f) == { f[i] : i \in DOMAIN f }

\* const allowedOrigins = ... of either server file
allowedOrigins(env) ==
    IF env.server = "FRONTEND_ORIGIN"
    THEN { trim(o) : o \in { <<"http://", "localhost", ":5173">>, env.value } \ {<<>>} }
    ELSE { trim(o) : o \in Range(split(OrElse(env.value, <<"*">>), <<>>)) }

\* new URL(origin).hostname: the labels between scheme and port, or a throw
InvalidURL == <<"TypeError: Invalid URL">>
hostname(origin) ==
    IF origin = <<>> \/ Head(origin) \notin Schemes \/ Len(origin) < 2
    THEN InvalidURL
    ELSE SelectSeq(Tail(origin), LAMBDA tok : tok \notin Ports)

\* String.prototype.endsWith, for a suffix that is one token
endsWith(text, suffix) == text # <<>> /\ text[Len(text)] = suffix

\* the origin callback: TRUE for cb(null, true), FALSE for cb(null, false)
originCallback(env, origin) ==
    IF origin = NoOrigin THEN TRUE
    ELSE IF env.server = "ALLOWED_ORIGINS" /\ <<"*">> \in allowedOrigins(env) THEN TRUE
    ELSE IF origin \in allowedOrigins(env) THEN TRUE
    ELSE IF hostname(origin) # InvalidURL /\ endsWith(hostname(origin), ".vercel.app")
    THEN TRUE
    ELSE FALSE

\* one request through app.use(cors({origin})) and, in the server that has
\* it, app.options('*', cors()): which layer, if any, sent the allow headers
CorsRequest(method, origin) ==
    /\ Len(corsLog) < MaxCorsRequests
    /\ LET env == corsEnv[1]
           via == IF originCallback(env, origin) THEN "origin callback"
                  ELSE IF env.server = "FRONTEND_ORIGIN" /\ method = "OPTIONS"
                  THEN "preflight route"
                  ELSE "none"
       IN corsLog' = Append(corsLog, [method  |-> method,
                                      origin  |-> origin,
                                      allowed |-> via # "none",
                                      via     |-> via])
    /\ UNCHANGED <<envVars, selfTest, now, healthLog, corsEnv>>
    /\ UNCHANGED walletVars
    /\ UNCHANGED relayVars
    /\ UNCHANGED hookVars
    /\ UNCHANGED utilVars
    /\ UNCHANGED sdkVars
    /\ UNCHANGED historyVars

(***************************************************************************)
(* The start-up self-test: an async function called once when the module   *)
(* loads.  selfTest holds its position, what it wrote to the console, and  *)
(* whether a rejection escaped it or the process was ended.                *)
(***************************************************************************)
SelfTestPending ==
    [pc |-> "pending", console |-> <<>>, unhandledRejection |-> FALSE, exited |-> FALSE]

\* pinata.testAuthentication is a function: it is called and awaited
SelfTestStart ==
    /\ selfTest.pc = "pending"
    /\ selfTest' = [selfTest EXCEPT !.pc = "awaiting"]
    /\ UNCHANGED <<envVars, now, healthLog, corsEnv, corsLog>>
    /\ UNCHANGED walletVars
    /\ UNCHANGED relayVars
    /\ UNCHANGED hookVars
    /\ UNCHANGED utilVars
    /\ UNCHANGED sdkVars
    /\ UNCHANGED historyVars

\* the SDK has no testAuthentication method
SelfTestNoMethod ==
    /\ selfTest.pc = "pending"
    /\ selfTest' = [selfTest EXCEPT
                       !.pc = "skipped",
                       !.console = Append(@, [level |-> "log",
                                              text |-> "Pinata SDK loaded (no testAuthentication method)"])]
    /\ UNCHANGED <<envVars, now, healthLog, corsEnv, corsLog>>
    /\ UNCHANGED walletVars
    /\ UNCHANGED relayVars
    /\ UNCHANGED hookVars
    /\ UNCHANGED utilVars
    /\ UNCHANGED sdkVars
    /\ UNCHANGED historyVars

\* testAuthentication resolved
SelfTestOk ==
    /\ selfTest.pc = "awaiting"
    /\ selfTest' = [selfTest EXCEPT
                       !.pc = "ok",
                       !.console = Append(@, [level |-> "log", text |-> "Pinata auth OK"])]
    /\ UNCHANGED <<envVars, now, healthLog, corsEnv, corsLog>>
    /\ UNCHANGED walletVars
    /\ UNCHANGED relayVars
    /\ UNCHANGED hookVars
    /\ UNCHANGED utilVars
    /\ UNCHANGED sdkVars
    /\ UNCHANGED historyVars

\* variant: no try/catch in the async function
SelfTestFails_Uncaught ==
    /\ selfTest.pc = "awaiting"
    /\ selfTest' = [selfTest EXCEPT
                       !.pc = "failed",
                       !.unhandledRejection = TRUE,
                       !.exited = TRUE]
    /\ UNCHANGED <<envVars, now, healthLog, corsEnv, corsLog>>
    /\ UNCHANGED walletVars
    /\ UNCHANGED relayVars
    /\ UNCHANGED hookVars
    /\ UNCHANGED utilVars
    /\ UNCHANGED sdkVars
    /\ UNCHANGED historyVars

\* testAuthentication rejected: the catch block logs
SelfTestFails ==
    /\ selfTest.pc = "awaiting"
    /\ selfTest' = [selfTest EXCEPT
                       !.pc = "failed",
                       !.console = Append(@, [level |-> "error",
                                              text |-> "Pinata authentication FAILED. Check env vars."])]
    /\ UNCHANGED <<envVars, now, healthLog, corsEnv, corsLog>>
    /\ UNCHANGED walletVars
    /\ UNCHANGED relayVars
    /\ UNCHANGED hookVars
    /\ UNCHANGED utilVars
    /\ UNCHANGED sdkVars
    /\ UNCHANGED historyVars

(***************************************************************************)
(* GET /health.  Date.now() reads the system's wall clock, which runs      *)
(* forward and which the operating system may set back.                    *)
(***************************************************************************)
\* the latest wall-clock reading, the number of times the clock is set back,
\* and the number of /health calls the model admits
MaxClock == 3
MaxSetBacks == 2
MaxHealthCalls == 3

\* time passes
Tick ==
    /\ now.ms < MaxClock
    /\ now' = [now EXCEPT !.ms = @ + 1]
    /\ UNCHANGED <<envVars, selfTest, healthLog, corsEnv, corsLog>>
    /\ UNCHANGED walletVars
    /\ UNCHANGED relayVars
    /\ UNCHANGED hookVars
    /\ UNCHANGED utilVars
    /\ UNCHANGED sdkVars
    /\ UNCHANGED historyVars

\* the system clock is corrected backwards (time synchronisation, an operator)
ClockSetBack ==
    /\ now.setBacks < MaxSetBacks
    /\ \E t \in 0..(now.ms - 1) :
          now' = [ms |-> t, setBacks |-> now.setBacks + 1]
    /\ UNCHANGED <<envVars, selfTest, healthLog, corsEnv, corsLog>>
    /\ UNCHANGED walletVars
    /\ UNCHANGED relayVars
    /\ UNCHANGED hookVars
    /\ UNCHANGED utilVars
    /\ UNCHANGED sdkVars
    /\ UNCHANGED historyVars

\* variant: ts counts down
Health_CountsDown ==
    /\ Len(healthLog) < MaxHealthCalls
    /\ healthLog' = Append(healthLog, [status       |-> 200,
                                       ok           |-> TRUE,
                                       ts           |-> MaxClock - now.ms,
                                       cacheControl |-> "no-store",
                                       clock        |-> now])
    /\ UNCHANGED <<envVars, selfTest, now, corsEnv, corsLog>>
    /\ UNCHANGED walletVars
    /\ UNCHANGED relayVars
    /\ UNCHANGED hookVars
    /\ UNCHANGED utilVars
    /\ UNCHANGED sdkVars
    /\ UNCHANGED historyVars

\* app.get('/health'): the response, kept with the clock it was read from
Health ==
    /\ Len(healthLog) < MaxHealthCalls
    /\ healthLog' = Append(healthLog, [status       |-> 200,
                                       ok           |-> TRUE,
                                       ts           |-> now.ms,
                                       cacheControl |-> "no-store",
                                       clock        |-> now])
    /\ UNCHANGED <<envVars, selfTest, now, corsEnv, corsLog>>
    /\ UNCHANGED walletVars
    /\ UNCHANGED relayVars
    /\ UNCHANGED hookVars
    /\ UNCHANGED utilVars
    /\ UNCHANGED sdkVars
    /\ UNCHANGED historyVars

(***************************************************************************)
(* formatAmount / parseAmount.  A string is a sequence of characters.      *)
(***************************************************************************)
\* the amounts 0..MaxAmount and the decimals 0..MaxDecimals are tried
MaxAmount == 150
MaxDecimals == 6
Amounts == (0..MaxAmount) \cup {1000000, 1500000}

DigitChars == <<"0", "1", "2", "3", "4", "5", "6", "7", "8", "9">>
IsDigit(ch) == \E k \in 1..10 : DigitChars[k] = ch
DigitValue(ch) == (CHOOSE k \in 1..10 : DigitChars[k] = ch) - 1

\* amount.toString() of a non-negative integer
RECURSIVE toString(_)
toString(n) ==
    IF n < 10 THEN <<DigitChars[n + 1]>>
    ELSE toString(n \div 10) \o <<DigitChars[(n % 10) + 1]>>

\* BigInt(text) of a digit string
RECURSIVE BigInt(_)
BigInt(text) ==
    IF text = <<>> THEN 0
    ELSE 10 * BigInt(SubSeq(text, 1, Len(text) - 1)) + DigitValue(text[Len(text)])

\* String.prototype.slice: a negative index counts from the end, and -0 is 0
sliceIndex(str, i) ==
    IF i < 0 THEN (IF Len(str) + i < 0 THEN 0 ELSE Len(str) + i)
    ELSE (IF i > Len(str) THEN Len(str) ELSE i)
slice(str, start, end) ==
    IF sliceIndex(str, start) < sliceIndex(str, end)
    THEN SubSeq(str, sliceIndex(str, start) + 1, sliceIndex(str, end))
    ELSE <<>>

RECURSIVE padStart(_, _, _)
padStart(str, targetLength, ch) ==
    IF Len(str) >= targetLength THEN str ELSE padStart(<<ch>> \o str, targetLength, ch)

RECURSIVE padEnd(_, _, _)
padEnd(str, targetLength, ch) ==
    IF Len(str) >= targetLength THEN str ELSE padEnd(Append(str, ch), targetLength, ch)

formatAmount(amount, decimals) ==
    LET amountStr     == toString(amount)
        decimalPoints == decimals
    IN IF Len(amountStr) <= decimalPoints
       THEN <<"0", ".">> \o padStart(amountStr, decimalPoints, "0")
       ELSE LET integerPart == slice(amountStr, 0, 0 - decimalPoints)
                decimalPart == slice(amountStr, 0 - decimalPoints, Len(amountStr))
            IN integerPart \o <<".">> \o decimalPart

\* /^\d+(\.\d+)?$/
IsDigits(text) == text # <<>> /\ \A i \in 1..Len(text) : IsDigit(text[i])
MatchesAmount(text) ==
    \/ IsDigits(text)
    \/ \E i \in 1..Len(text) :
          /\ text[i] = "."
          /\ IsDigits(SubSeq(text, 1, i - 1))
          /\ IsDigits(SubSeq(text, i + 1, Len(text)))

\* const [integerPart = '0', decimalPart = ''] = trimmed.split('.')
split2(text) ==
    IF \E i \in 1..Len(text) : text[i] = "."
    THEN LET i == CHOOSE k \in 1..Len(text) : text[k] = "."
         IN <<SubSeq(text, 1, i - 1), SubSeq(text, i + 1, Len(text))>>
    ELSE <<text, <<>>>>

\* the result of a call: the value returned, or the message of the Error thrown
Returns(v) == [threw |-> Null, value |-> v]
ThrowsError(msg) == [threw |-> msg, value |-> 0]

parseAmount(amount, decimals) ==
    LET trimmed == trim(amount)
    IN IF trimmed = <<>> THEN ThrowsError("Amount is required")
       ELSE IF ~MatchesAmount(trimmed) THEN ThrowsError("Invalid amount format")
       ELSE LET parts       == split2(trimmed)
                integerPart == parts[1]
                decimalPart == parts[2]
            IN IF Len(decimalPart) > decimals
               THEN ThrowsError("Too many decimal places")
               ELSE Returns(BigInt(integerPart \o padEnd(decimalPart, decimals, "0")))

\* formatAmount(amount, decimals) is called
FormatAmount ==
    /\ amountCalc.pc = "input"
    /\ amountCalc' = [amountCalc EXCEPT
                         !.pc = "formatted",
                         !.text = formatAmount(amountCalc.amount, amountCalc.decimals)]
    /\ UNCHANGED walletVars
    /\ UNCHANGED relayVars
    /\ UNCHANGED serverVars
    /\ UNCHANGED hookVars
    /\ UNCHANGED sdkVars
    /\ UNCHANGED historyVars

\* parseAmount is called on the formatted text, with the same decimals
ParseAmount ==
    /\ amountCalc.pc = "formatted"
    /\ amountCalc' = [amountCalc EXCEPT
                         !.pc = "parsed",
                         !.result = parseAmount(amountCalc.text, amountCalc.decimals)]
    /\ UNCHANGED walletVars
    /\ UNCHANGED relayVars
    /\ UNCHANGED serverVars
    /\ UNCHANGED hookVars
    /\ UNCHANGED sdkVars
    /\ UNCHANGED historyVars

\* two concurrent requests, the usual bodies and upstream errors
RelayRun ==
    /\ served = Requests
    /\ sentBodies = Bodies
    /\ upstreamFaults = UpstreamErrors

ServerInit ==
    /\ selfTest = SelfTestPending
    /\ now = [ms |-> 0, setBacks |-> 0]
    /\ healthLog = <<>>
    /\ corsEnv = NoObject
    /\ corsLog = <<>>

HookInit ==
    /\ rendered = NoObject
    /\ memo = NoObject
    /\ renderedFrom = NoObject

UtilInit ==
    amountCalc = [amount |-> 0, decimals |-> 6, pc |-> "input", text |-> <<>>,
                  result |-> Returns(0)]

SdkInit ==
    /\ initCalls = [c \in InitCalls |-> NoInitCall]
    /\ sdk = [clientId |-> TRUE, instance |-> NoObject, constructed |-> 0,
              modal |-> <<>>]

HistoryInit == afterLogout = "never"

Init == WalletInit /\ RelayInit /\ RelayRun /\ ServerInit /\ HookInit /\ UtilInit /\ SdkInit /\ HistoryInit

\* the wallet adapter in the browser
Next == WalletNext
Spec == Init /\ [][Next]_vars

\* The awaited calls of the provider complete: each continuation after an
\* await (of the mount effect, of login, of logout) runs once its promise
\* settles.
InitContinues ==
    \/ \E built \in BOOLEAN : InitWeb3AuthThrows(built)
    \/ InitWeb3AuthReady
    \/ InitWeb3AuthConnected
    \/ InitDeriveAccount
    \/ InitUserInfo
LoginContinues ==
    \/ LoginConnected
    \/ LoginFailed
    \/ LoginDeriveAccount
    \/ LoginUserInfo
LogoutContinues ==
    \/ LogoutDone
    \/ LogoutThrows
LiveSpec ==
    /\ Init
    /\ [][Next]_vars
    /\ WF_vars(InitContinues)
    /\ WF_vars(LoginContinues)
    /\ WF_vars(LogoutContinues)

\* the relay server
RelaySpec == Init /\ [][RelayNext]_vars

\* the relay handling one request, over every kind of field value and of
\* thrown value
HandlerInit ==
    /\ WalletInit /\ RelayInit /\ ServerInit /\ HookInit /\ UtilInit /\ SdkInit /\ HistoryInit
    /\ served = {1}
    /\ sentBodies = AllBodies
    /\ upstreamFaults = AllUpstreamErrors

HandlerNext ==
    \/ RelayNext
    \/ SelfTestStart
    \/ SelfTestNoMethod
    \/ SelfTestOk
    \/ SelfTestFails
HandlerSpec == HandlerInit /\ [][HandlerNext]_vars

\* the hook as a function of what the two providers report: every context
\* value, the account's key of every kind
ResolveInit ==
    /\ isConnected \in BOOLEAN
    /\ algorandAccount \in {NoObject} \cup {Some(a) : a \in AllAccounts}
    /\ isLoading \in BOOLEAN
    /\ error \in {Null, "Logout failed"}
    /\ activeAddress \in {Null} \cup Addresses
    /\ isInitialized = TRUE
    /\ provider = Null
    /\ web3AuthInstance = Null
    /\ userInfo = Null
    /\ initPc = "mount"
    /\ loginPc = "idle"
    /\ logoutPc = "idle"
    /\ web3authInstance = Null
    /\ sdkStatus = "not_ready"
    /\ RelayInit /\ RelayRun /\ ServerInit /\ HookInit /\ UtilInit /\ SdkInit /\ HistoryInit

ResolveNext == Render
ResolveSpec == ResolveInit /\ [][ResolveNext]_vars

\* the providers and a component that renders with the hook at any time
HookNext ==
    \/ WalletNext
    \/ Render
HookSpec == Init /\ [][HookNext]_vars

\* formatAmount followed by parseAmount, for every amount and decimals
AmountInit ==
    /\ WalletInit /\ RelayInit /\ RelayRun /\ ServerInit /\ HookInit /\ SdkInit /\ HistoryInit
    /\ amountCalc \in [amount : Amounts, decimals : 0..MaxDecimals, pc : {"input"},
                       text : {<<>>}, result : {Returns(0)}]

\* initWeb3Auth() called several times, with and without a client id
InitCallInit ==
    /\ WalletInit /\ RelayInit /\ RelayRun /\ ServerInit /\ HookInit /\ UtilInit /\ HistoryInit
    /\ initCalls = [c \in InitCalls |-> NoInitCall]
    /\ sdk \in [clientId : BOOLEAN, instance : {NoObject}, constructed : {0},
                modal : {<<>>}]

InitCallNext ==
    \/ \E c \in InitCalls : InitCallReturnsExisting(c)
    \/ \E c \in InitCalls : InitCallNoClientId(c)
    \/ \E c \in InitCalls : InitCallConstructorThrows(c)
    \/ \E c \in InitCalls : InitCallConstruct(c)
    \/ \E c \in InitCalls : InitModalOk(c)
    \/ \E c \in InitCalls : InitModalFails(c)
InitCallSpec == InitCallInit /\ [][InitCallNext]_vars

AmountNext == FormatAmount \/ ParseAmount
AmountSpec == AmountInit /\ [][AmountNext]_vars

\* the health endpoint and the clock it reads
HealthNext == Tick \/ ClockSetBack \/ Health
HealthSpec == Init /\ [][HealthNext]_vars

\* the CORS layer of either server file under every environment
CorsInit ==
    /\ WalletInit /\ RelayInit /\ RelayRun /\ HookInit /\ UtilInit /\ SdkInit /\ HistoryInit
    /\ selfTest = SelfTestPending
    /\ now = [ms |-> 0, setBacks |-> 0]
    /\ healthLog = <<>>
    /\ corsEnv \in { Some(env) : env \in CorsEnvs }
    /\ corsLog = <<>>

CorsNext ==
    \E method \in {"GET", "POST", "OPTIONS"}, origin \in {NoOrigin} \cup Origins :
        CorsRequest(method, origin)
CorsSpec == CorsInit /\ [][CorsNext]_vars

(***************************************************************************)
(* Properties of the unified wallet                                        *)
(***************************************************************************)
\* both providers report a session, for different addresses
BothConnected ==
    /\ isConnected
    /\ algorandAccount # NoObject
    /\ activeAddress # Null
    /\ algorandAccount[1].address # activeAddress

\* C1: when social login is connected with a derived account X and the
\* browser wallet reports another address Y, the unified wallet returns X's
\* address with walletType 'web3auth', never Y and never 'traditional'.
C1_Web3AuthTakesPriority ==
    BothConnected =>
        /\ resolve # Throws
        /\ resolve.activeAddress = algorandAccount[1].address
        /\ resolve.walletType = "web3auth"
        /\ resolve.activeAddress # activeAddress
        /\ resolve.walletType # "traditional"

C1_Witness ==
    /\ BothConnected
    /\ loginPc = "idle"
    /\ resolve.walletType = "web3auth"

\* neither provider gives an account
NeitherConnected ==
    /\ ~isConnected \/ algorandAccount = NoObject
    /\ activeAddress = Null

\* C2: when neither provider is connected, the unified wallet returns
\* activeAddress null, signer null, walletType null and isConnected false.
C2_NoWallet ==
    NeitherConnected =>
        /\ resolve.activeAddress = Null
        /\ resolve.signer = NoObject
        /\ resolve.walletType = Null
        /\ resolve.isConnected = FALSE

\* a session whose account derivation failed, and no browser wallet
C2_Witness ==
    /\ NeitherConnected
    /\ isConnected
    /\ loginPc = "idle"
    /\ initPc = "done"
    /\ resolve.walletType = Null

\* C3: in every reachable state the unified wallet exposes at most one
\* active account: walletType is 'web3auth', 'traditional' or null, the
\* exposed address is that provider's address, and isConnected holds exactly
\* when walletType is not null.
C3_OneActiveAccount ==
    /\ resolve # Throws
    /\ resolve.walletType \in {"web3auth", "traditional", Null}
    /\ resolve.walletType = "web3auth" =>
          /\ isConnected /\ algorandAccount # NoObject
          /\ resolve.activeAddress = algorandAccount[1].address
          /\ resolve.web3auth.algorandAccount = algorandAccount
    /\ resolve.walletType = "traditional" =>
          /\ activeAddress # Null
          /\ resolve.activeAddress = activeAddress
          /\ resolve.web3auth.algorandAccount = NoObject
    /\ resolve.walletType = Null =>
          /\ resolve.activeAddress = Null
          /\ resolve.web3auth.algorandAccount = NoObject
    /\ resolve.isConnected <=> resolve.walletType # Null

\* the browser wallet is the active one while a social login is under way
C3_Witness ==
    /\ resolve.walletType = "traditional"
    /\ isConnected
    /\ loginPc = "getAlgorandAccount"
    /\ logoutPc = "logoutFromWeb3Auth"

(***************************************************************************)
(* Properties of the relay                                                 *)
(***************************************************************************)
Done(r) == req[r].pc = "done"

\* the events of request r's upstream calls of one kind
EventsOf(r, op, ev) ==
    {i \in 1..Len(calls[r]) : calls[r][i].op = op /\ calls[r][i].ev = ev}

NoFileResponse == JsonResponse(400, "error", <<"No file uploaded">>)

\* C4: a request without a file is answered with exactly 400
\* {error: "No file uploaded"} and makes no upstream call.
C4_NoFileIs400 ==
    \A r \in Requests :
        (req[r].pc # "new" /\ ~req[r].file.present) =>
            /\ responses[r] = <<NoFileResponse>>
            /\ calls[r] = <<>>

C4_Witness ==
    \E r \in Requests :
        /\ Done(r)
        /\ ~req[r].file.present
        /\ req[r].body.metaName # Undefined

\* C5: within a request the metadata pin is issued only after the file pin
\* of that request has returned; when the file pin fails the metadata
\* document is never built and the metadata pin never attempted.
C5_MetadataAfterImage ==
    \A r \in Requests :
        /\ \A i \in EventsOf(r, "pinJSONToIPFS", "call") :
              \E j \in EventsOf(r, "pinFileToIPFS", "return") : j < i
        /\ req[r].metadata # NoObject => EventsOf(r, "pinFileToIPFS", "return") # {}
        /\ EventsOf(r, "pinFileToIPFS", "throw") # {} =>
              /\ req[r].metadata = NoObject
              /\ \A i \in 1..Len(calls[r]) : calls[r][i].op # "pinJSONToIPFS"

\* one request failed at the file pin while another went on to its metadata pin
C5_Witness ==
    \E r1, r2 \in Requests :
        /\ Done(r1)
        /\ EventsOf(r1, "pinFileToIPFS", "throw") # {}
        /\ EventsOf(r2, "pinJSONToIPFS", "call") # {}

\* the file pin of r succeeded and its metadata pin failed
PartialPin(r) ==
    /\ EventsOf(r, "pinFileToIPFS", "return") # {}
    /\ EventsOf(r, "pinJSONToIPFS", "throw") # {}

\* C6: when the file pin succeeds and the metadata pin fails, the relay
\* answers 500 and makes no compensating call: the file stays pinned.
C6_NoRollback ==
    \A r \in Requests :
        PartialPin(r) =>
            /\ Len(responses[r]) = 1
            /\ responses[r][1].status = 500
            /\ IpfsHashOf(req[r].file.buffer) \in pinned
            /\ \A i \in 1..Len(calls[r]) :
                  calls[r][i].op \in {"pinFileToIPFS", "pinJSONToIPFS"}
            /\ calls[r][Len(calls[r])].ev = "throw"

C6_Witness ==
    \E r \in Requests :
        /\ PartialPin(r)
        /\ Done(r)
        /\ IpfsHashOf(req[r].file.buffer) \in pinned

\* C7: the relay never retries: each request calls pinFileToIPFS at most
\* once and pinJSONToIPFS at most once, and the first upstream failure ends
\* the request with an error response and no further upstream call.
C7_NoRetry ==
    \A r \in Requests :
        /\ Cardinality(EventsOf(r, "pinFileToIPFS", "call")) <= 1
        /\ Cardinality(EventsOf(r, "pinJSONToIPFS", "call")) <= 1
        /\ \A i \in 1..Len(calls[r]) :
              calls[r][i].ev = "throw" =>
                  /\ i = Len(calls[r])
                  /\ Done(r)
                  /\ Len(responses[r]) = 1
                  /\ responses[r][1].status = 500
                  /\ responses[r][1].key = "error"

\* both requests of a run ended on an upstream failure
C7_Witness ==
    /\ \A r \in Requests : Done(r) /\ calls[r] # <<>>
    /\ \E r \in Requests : EventsOf(r, "pinFileToIPFS", "throw") # {}
    /\ \E r \in Requests : EventsOf(r, "pinJSONToIPFS", "throw") # {}

\* C8: every request, also one whose file is over the 10 MiB limit, ends
\* with exactly one response, which is 200 {metadataUrl} or a JSON {error}
\* with status 400 or 500.
C8_JsonResponseAlways ==
    \A r \in Requests :
        Done(r) =>
            /\ Len(responses[r]) = 1
            /\ responses[r][1].json
            /\ \/ responses[r][1].status = 200 /\ responses[r][1].key = "metadataUrl"
               \/ responses[r][1].status \in {400, 500} /\ responses[r][1].key = "error"

\* request r was answered 200
Succeeded(r) ==
    /\ Done(r)
    /\ responses[r] # <<>>
    /\ responses[r][1].status = 200

\* C9: on success the metadata document sent to the metadata pin has
\* image = "ipfs://" + the hash the file pin of the same request returned,
\* and metadataUrl = "ipfs://" + the hash the metadata pin of the same
\* request returned; the response never carries the image locator.
C9_LocatorsChained ==
    \A r \in Requests :
        Succeeded(r) =>
            /\ Len(calls[r]) = 4
            /\ calls[r][2] = Event("pinFileToIPFS", "return", calls[r][2].data)
            /\ calls[r][3] = Event("pinJSONToIPFS", "call", Stringify(req[r].metadata[1]))
            /\ calls[r][4] = Event("pinJSONToIPFS", "return", calls[r][4].data)
            /\ req[r].metadata[1].image = <<"ipfs://">> \o calls[r][2].data
            /\ responses[r] = <<JsonResponse(200, "metadataUrl", <<"ipfs://">> \o calls[r][4].data)>>
            /\ responses[r][1].value # req[r].imageUrl

\* two requests with different files both succeeded
C9_Witness ==
    \E r1, r2 \in Requests :
        /\ Succeeded(r1) /\ Succeeded(r2)
        /\ req[r1].file # req[r2].file

\* a locator without its scheme
StripPrefix(url) == IF url # <<>> /\ Head(url) = "ipfs://" THEN Tail(url) ELSE url

\* C10: for every upload that succeeds, metadataUrl without its ipfs://
\* prefix is a non-empty hash that differs from the image's hash.
C10_MetadataHashDistinct ==
    \A r \in Requests :
        Succeeded(r) =>
            /\ Head(responses[r][1].value) = "ipfs://"
            /\ StripPrefix(responses[r][1].value) # <<>>
            /\ StripPrefix(responses[r][1].value) # IpfsHashOf(req[r].file.buffer)
            /\ StripPrefix(responses[r][1].value) # StripPrefix(req[r].imageUrl)

C10_Witness ==
    \E r \in Requests :
        /\ Succeeded(r)
        /\ req[r].file.originalname = <<>>
        /\ StripPrefix(req[r].imageUrl) \in pinned

(***************************************************************************)
(* Properties of the handler's field handling                              *)
(***************************************************************************)
\* request r carried a file that multer accepted, and the handler has run
Accepted(r) ==
    /\ req[r].pc # "new"
    /\ req[r].file.present
    /\ req[r].file.size <= fileSizeLimit

\* the texts of PropertiesValues that are not JSON
NotJsonTexts == { <<>>, <<" ", "\t">>, <<"n", "o", "t">>, <<"{", "k">> }
NotValidJson(v) == v.type # "string" \/ v.str \in NotJsonTexts

\* C11: the properties field never aborts a request: whatever its value the
\* relay goes on to the file pin, and when the field is absent or is not
\* valid JSON the metadata document's properties are the empty object.
C11_PropertiesNeverAbort ==
    \A r \in Requests :
        Accepted(r) =>
            /\ calls[r] # <<>>
            /\ calls[r][1] = Event("pinFileToIPFS", "call", req[r].file.buffer)
            /\ NotValidJson(req[r].body.properties) =>
                  /\ req[r].properties = <<"{}">>
                  /\ req[r].metadata # NoObject =>
                        req[r].metadata[1].properties = <<"{}">>
            /\ ~NotValidJson(req[r].body.properties) =>
                  req[r].properties \in { <<"{}">>, <<"{k:1}">> }

\* a request with properties "not" was answered 200
C11_Witness ==
    \E r \in Requests :
        /\ Succeeded(r)
        /\ req[r].body.properties = Str(<<"n", "o", "t">>)
        /\ req[r].metadata[1].properties = <<"{}">>

\* n is text without its leading and trailing whitespace
IsTrimOf(n, text) ==
    \E i, j \in 1..Len(text) :
        /\ i <= j
        /\ n = SubSeq(text, i, j)
        /\ text[i] \notin Whitespace
        /\ text[j] \notin Whitespace
        /\ \A k \in 1..Len(text) : (k < i \/ k > j) => text[k] \in Whitespace

\* n is what the handler must store for field value v with default d
StoredFor(n, v, d) ==
    /\ IF v.type = "string" /\ \E i \in 1..Len(v.str) : v.str[i] \notin Whitespace
       THEN IsTrimOf(n, v.str)
       ELSE n = d
    /\ \E i \in 1..Len(n) : n[i] \notin Whitespace

\* C12: the metadata name and description are the trimmed metaName and
\* metaDescription; a field that is absent, not a string or empty after
\* trimming is stored as the fixed default, never as an empty or blank string.
C12_TrimmedOrDefault ==
    \A r \in Requests :
        Accepted(r) =>
            /\ StoredFor(req[r].metaName, req[r].body.metaName, <<"NFT Example">>)
            /\ StoredFor(req[r].metaDescription, req[r].body.metaDescription,
                         <<"This is an unchangeable NFT">>)
            /\ req[r].metadata # NoObject =>
                  /\ req[r].metadata[1].name = req[r].metaName
                  /\ req[r].metadata[1].description = req[r].metaDescription

\* a whitespace-only name and a padded description reached the metadata pin
C12_Witness ==
    \E r \in Requests :
        /\ Succeeded(r)
        /\ req[r].body.metaName = Str(<<" ">>)
        /\ req[r].body.metaDescription = Str(<<"D", "\t">>)
        /\ req[r].metadata[1].name = <<"NFT Example">>
        /\ req[r].metadata[1].description = <<"D">>

(***************************************************************************)
(* Properties of the signer                                                *)
(***************************************************************************)
\* C13: the wallet adapter never throws: in every social-login state, a
\* connected session with unusable key material included, resolve() returns
\* a result; a signer that cannot be built shows only when it is used.
C13_AdapterNeverThrows ==
    rendered # NoObject => rendered[1] # Throws

\* C14: createWeb3AuthSigner gives a signer over a byte-sequence key for a
\* byte-sequence or numeric-array secret key, and fails with the invalid key
\* material error for a key of every other kind.
C14_SignerKeyKinds ==
    (rendered # NoObject /\ isConnected /\ algorandAccount # NoObject) =>
        LET account == algorandAccount[1]
        IN IF account.secretKey \in {"Uint8Array", "numberArray"}
           THEN /\ rendered[1] # Throws
                /\ rendered[1].signer =
                      Some([kind |-> "basicAccountSigner", addr |-> account.address,
                            sk |-> "Uint8Array"])
           ELSE rendered[1] = Throws

(***************************************************************************)
(* Properties of the relay process                                         *)
(***************************************************************************)
\* the origins of Origins whose hostname is under .vercel.app
VercelOrigins == { <<"https://", "fork", ".vercel.app">> }

\* C15: a request without an origin is allowed; a request with an origin is
\* allowed exactly when the origin is in the allow-list or its hostname ends
\* with ".vercel.app"; every other origin is rejected, whatever the
\* environment, the default one included.
C15_CorsDecision ==
    \A i \in DOMAIN corsLog :
        LET e == corsLog[i]
        IN e.allowed <=> \/ e.origin = NoOrigin
                         \/ e.origin \in allowedOrigins(corsEnv[1])
                         \/ e.origin \in VercelOrigins

\* every /health response is 200 {ok: true, ts} with Cache-Control: no-store
HealthShape ==
    \A i \in DOMAIN healthLog :
        /\ healthLog[i].status = 200
        /\ healthLog[i].ok
        /\ healthLog[i].cacheControl = "no-store"

\* C16 as stated: GET /health always answers 200 {ok: true, ts} with
\* Cache-Control: no-store, and over any sequence of calls the ts values
\* never decrease.
C16_HealthMonotonic ==
    /\ HealthShape
    /\ \A i, j \in DOMAIN healthLog : i < j => healthLog[i].ts <= healthLog[j].ts

\* C16, amended: GET /health always answers 200 {ok: true, ts} with
\* Cache-Control: no-store, where ts is the wall clock at the call; the ts
\* values of two calls are in order whenever the clock was not set back
\* between them.
C16_HealthWallClock ==
    /\ HealthShape
    /\ \A i \in DOMAIN healthLog : healthLog[i].ts = healthLog[i].clock.ms
    /\ \A i, j \in DOMAIN healthLog :
          (i < j /\ healthLog[i].clock.setBacks = healthLog[j].clock.setBacks)
              => healthLog[i].ts <= healthLog[j].ts

\* three calls: the clock was set back before the second, and ran on before
\* the third
C16_Witness ==
    /\ Len(healthLog) = 3
    /\ healthLog[1].ts > healthLog[2].ts
    /\ healthLog[2].clock.setBacks = healthLog[3].clock.setBacks
    /\ healthLog[2].ts < healthLog[3].ts

\* the handler can take its next step for request r
CanHandle(r) ==
    \/ ENABLED MulterRejects(r)
    \/ ENABLED NoFileUploaded(r)
    \/ ENABLED PinImage(r)
    \/ ENABLED PinMetadata(r)
    \/ ENABLED PinImageFails(r)
    \/ ENABLED Respond(r)
    \/ ENABLED PinMetadataFails(r)

\* C17: the start-up self-test runs once and only logs: it writes one console
\* line when it ends, a failure neither ends the process nor leaves an
\* unhandled rejection, and whatever its position (not finished, failed,
\* passed) a request is handled: the handler is never held back.
C17_SelfTestOnlyLogs ==
    /\ ~selfTest.unhandledRejection
    /\ ~selfTest.exited
    /\ Len(selfTest.console) = IF selfTest.pc \in {"ok", "failed", "skipped"} THEN 1 ELSE 0
    /\ selfTest.pc = "failed" => selfTest.console[1].level = "error"
    /\ \A r \in served : ~Done(r) => CanHandle(r)

\* C17: a step of the self-test leaves every request as it is, a step of the
\* handler leaves the self-test as it is, and once ended the self-test does
\* not run again.
C17_SelfTestApart ==
    [][/\ selfTest' # selfTest => (UNCHANGED relayVars /\ selfTest.pc \in {"pending", "awaiting"})
       /\ relayVars' # relayVars => selfTest' = selfTest]_vars

\* a request was answered 200 although the self-test failed
C17_Witness ==
    /\ selfTest.pc = "failed"
    /\ \E r \in served : Succeeded(r)

(***************************************************************************)
(* Properties of concurrent requests and of the error response             *)
(***************************************************************************)
\* the metadata document that request r's own fields and file give
OwnMetadata(r) ==
    [name        |-> OrElse(safeTrim(req[r].body.metaName), <<"NFT Example">>),
     description |-> OrElse(safeTrim(req[r].body.metaDescription),
                            <<"This is an unchangeable NFT">>),
     image       |-> <<"ipfs://">> \o IpfsHashOf(req[r].file.buffer),
     properties  |-> safeJsonParse(req[r].body.properties, <<"{}">>)]

\* the response that request r's own file, fields and upstream results give
OwnOutcome(r) ==
    IF ~req[r].file.present
    THEN JsonResponse(400, "error", <<"No file uploaded">>)
    ELSE IF req[r].file.size > fileSizeLimit
    THEN [status |-> 500, json |-> FALSE, key |-> "html",
          value |-> <<"MulterError: File too large">>]
    ELSE IF req[r].error # NoObject
    THEN JsonResponse(500, "error", ErrorMsg(req[r].error[1]))
    ELSE JsonResponse(200, "metadataUrl",
                      <<"ipfs://">> \o IpfsHashOf(Stringify(OwnMetadata(r))))

\* C18: concurrent requests are independent: whatever the interleaving, the
\* response of each request and the metadata document it pins are those that
\* its own file, fields and upstream results give; another request's
\* failure changes nothing in it.
C18_RequestsIndependent ==
    \A r \in Requests :
        /\ Done(r) => responses[r] = <<OwnOutcome(r)>>
        /\ req[r].metadata # NoObject => req[r].metadata[1] = OwnMetadata(r)
        /\ ~Done(r) => responses[r] = <<>>

\* C18: a step of one request changes no other request's state, upstream
\* events or response.
C18_OneRequestPerStep ==
    [][\A r, q \in Requests :
          (r # q /\ req'[r] # req[r]) =>
              /\ req'[q] = req[q]
              /\ calls'[q] = calls[q]
              /\ responses'[q] = responses[q]]_vars

\* two requests with different fields and files ran together: one was
\* answered 200, the other 500 after its metadata pin failed
C18_Witness ==
    \E r, q \in Requests :
        /\ Succeeded(r)
        /\ Done(q)
        /\ req[q].metadata # NoObject
        /\ req[q].error # NoObject
        /\ req[r].file # req[q].file
        /\ req[r].body.metaName # req[q].body.metaName

IsString(v) == v = <<>> \/ Head(v) # "[object]"
NonEmptyString(v) == IsString(v) /\ v # <<>>

\* the error string the upstream service reported in what was thrown, if any
UpstreamErrorString(e) ==
    IF NonEmptyString(e.dataError) THEN e.dataError
    ELSE IF NonEmptyString(e.data) THEN e.data
    ELSE <<>>

\* C20: an exception in the file pin, the metadata build or the metadata pin
\* is answered 500 {error: msg}; msg is the error string the upstream
\* service reported, else the exception's message, else "Failed to pin to
\* IPFS."; msg is always a non-empty string.
C20_ErrorMessage ==
    \A r \in Requests :
        req[r].error # NoObject =>
            LET e == req[r].error[1]
            IN /\ Len(responses[r]) = 1
               /\ responses[r][1].status = 500
               /\ responses[r][1].json
               /\ responses[r][1].key = "error"
               /\ responses[r][1].value =
                     IF UpstreamErrorString(e) # <<>> THEN UpstreamErrorString(e)
                     ELSE IF e.message # <<>> THEN e.message
                     ELSE <<"Failed to pin to IPFS.">>
               /\ NonEmptyString(responses[r][1].value)

(***************************************************************************)
(* Properties of the social-login provider                                 *)
(***************************************************************************)
\* login() may not go on: no instance in state, or initialization not finished
NotInitialized == web3AuthInstance = Null \/ ~isInitialized

NotInitializedErrors ==
    {"Web3Auth not initialized", "Web3Auth is still initializing, please try again"}

\* C21: login called while the session is not initialized never reaches
\* connect(); it sets the error string (no instance: "Web3Auth not
\* initialized", else "... still initializing ...") and leaves isConnected,
\* provider, algorandAccount, userInfo and isLoading as they were.
C21_LoginNotInitialized ==
    [][(loginPc = "idle" /\ NotInitialized) =>
          /\ loginPc' = "idle"
          /\ (error' # error /\ error' \in NotInitializedErrors) =>
                /\ error' = IF web3AuthInstance = Null
                            THEN "Web3Auth not initialized"
                            ELSE "Web3Auth is still initializing, please try again"
                /\ UNCHANGED <<isConnected, provider, algorandAccount, userInfo,
                               isLoading>>]_vars

\* login was called while an earlier session was being restored: the error
\* says so, and the restored connection is still there
C21_Witness ==
    /\ error = "Web3Auth is still initializing, please try again"
    /\ isConnected
    /\ loginPc = "idle"

\* C22: the unified wallet hook is the one source of truth: in every provider
\* state each component's notion of "a wallet is connected" (Home's enabled
\* call-to-action and connect hint, Layout's button states, ConnectWallet's
\* connected flag) agrees with useUnifiedWallet's isConnected, also when
\* only social login is connected.
C22_SingleSourceOfTruth ==
    /\ Home.ctaEnabled = resolve.isConnected
    /\ Home.connectHint = ~resolve.isConnected
    /\ (Layout.isWeb3AuthActive \/ Layout.isTraditionalActive) = resolve.isConnected
    /\ ConnectWallet.connected = resolve.isConnected

(***************************************************************************)
(* Properties of the amount helpers                                        *)
(***************************************************************************)
\* C23: parseAmount is the reverse of formatAmount: for every non-negative
\* integer amount and every decimals >= 0, parsing the formatted text with
\* the same decimals returns the amount, and never throws.
C23_ParseReversesFormat ==
    amountCalc.pc = "parsed" =>
        /\ amountCalc.result.threw = Null
        /\ amountCalc.result.value = amountCalc.amount

(***************************************************************************)
(* Properties of resolve() as a derivation                                 *)
(***************************************************************************)
\* what the last render returned is what the two provider values it read give
RenderedIsDerived ==
    rendered # NoObject =>
        rendered[1] = useUnifiedWallet(renderedFrom[1].web3auth,
                                       renderedFrom[1].traditional)

\* C24: resolve() is a pure derivation: a render changes no provider state,
\* and its result is the function of the two provider values it read,
\* whatever connects, disconnects and renders came before.
C24_PureDerivation ==
    /\ []RenderedIsDerived
    /\ [][rendered' # rendered => UNCHANGED walletVars]_vars

\* a render after a failed social login with the browser wallet connected
C24_Witness ==
    /\ rendered # NoObject
    /\ rendered[1].walletType = "traditional"
    /\ renderedFrom[1].web3auth.error # Null
    /\ afterLogout = "never"

\* social login reports a session for which no account was derived
ConnectedWithoutAccount ==
    /\ isConnected
    /\ algorandAccount = NoObject

\* C25: when social login reports a connected session without a derived
\* account, resolve() never returns the social-login wallet: it returns the
\* browser wallet when that has an active address, and otherwise no wallet,
\* with isConnected false.
C25_NoAccountNoSocial ==
    ConnectedWithoutAccount =>
        /\ resolve.walletType # "web3auth"
        /\ activeAddress # Null =>
              /\ resolve.walletType = "traditional"
              /\ resolve.activeAddress = activeAddress
              /\ resolve.signer = Some(transactionSigner)
        /\ activeAddress = Null =>
              /\ resolve.walletType = Null
              /\ resolve.isConnected = FALSE
              /\ resolve.activeAddress = Null

\* login's connect succeeded, the derivation failed and login has ended; no
\* browser wallet
C25_Witness ==
    /\ ConnectedWithoutAccount
    /\ error = "Failed to derive Algorand account"
    /\ loginPc = "idle"
    /\ activeAddress = Null
    /\ resolve.isConnected = FALSE

(***************************************************************************)
(* Properties of login and logout                                          *)
(***************************************************************************)
\* the step in which a logout ends
LogoutEnds == logoutPc = "logoutFromWeb3Auth" /\ logoutPc' = "idle"

\* C26: when a logout ends, whether the upstream logout returned or threw,
\* the provider is fully disconnected (isConnected false, provider, account
\* and user info null) and not loading, and the error string is non-null
\* exactly when the upstream logout threw.
C26_LogoutDisconnects ==
    [][LogoutEnds =>
          /\ isConnected' = FALSE
          /\ provider' = Null
          /\ algorandAccount' = NoObject
          /\ userInfo' = Null
          /\ isLoading' = FALSE
          /\ (error' # Null) <=> LogoutThrows]_vars

\* the step in which login() ends at connect(): it threw or gave no provider
ConnectFails == loginPc = "connect" /\ loginPc' = "idle"

\* C27: when login's connect() throws or gives no provider, login returns
\* with isConnected false, provider and account null, a non-null error and
\* isLoading false.
C27_LoginFailureDisconnects ==
    [][ConnectFails =>
          /\ isConnected' = FALSE
          /\ provider' = Null
          /\ algorandAccount' = NoObject
          /\ error' # Null
          /\ isLoading' = FALSE]_vars

\* a login has failed at connect() over an earlier connected session
C27_Witness ==
    /\ loginPc = "idle"
    /\ error \in {"Failed to connect Web3Auth provider", "Login failed"}
    /\ ~isConnected
    /\ provider = Null
    /\ userInfo # Null

\* no operation of the provider is between its start and its end
AllQuiet ==
    /\ initPc \in {"mount", "done"}
    /\ loginPc = "idle"
    /\ logoutPc = "idle"

\* C28: every operation that sets isLoading true (the mount effect, login,
\* logout) goes on, when its awaited calls complete, to an end at which
\* isLoading is false, on its success and on its failure paths; and whenever
\* no started operation is unfinished isLoading is false.
C28_LoadingEnds ==
    /\ [](AllQuiet => ~isLoading)
    /\ (initPc = "initWeb3Auth") ~> (initPc = "done" /\ ~isLoading)
    /\ (loginPc = "connect") ~> (loginPc = "idle" /\ ~isLoading)
    /\ (logoutPc = "logoutFromWeb3Auth") ~> (logoutPc = "idle" /\ ~isLoading)

\* the mount effect, and a logout whose upstream call threw, have ended
C28_Witness ==
    /\ AllQuiet
    /\ initPc = "done"
    /\ error = "Logout failed"
    /\ ~isLoading

\* C29: under every interleaving of login and logout, once a logout has
\* ended the provider stays disconnected (isConnected false, no account)
\* until a login is invoked after that logout; a login that was already in
\* flight does not bring the connected state back.
\* a step of a login that was invoked before the last logout ended
InFlightLoginStep == afterLogout' = "noLoginSince" /\ loginPc' # loginPc

C29_LogoutWins ==
    [][InFlightLoginStep =>
          ~isConnected' /\ algorandAccount' = NoObject]_vars

(***************************************************************************)
(* Properties of initWeb3Auth                                              *)
(***************************************************************************)
Returned == {c \in InitCalls : initCalls[c].pc = "returned"}

\* C30: across any interleaving of calls of initWeb3Auth, at most one
\* instance is constructed, every call that returns returns that instance,
\* and an instance is returned only after its initModal() has completed
\* successfully.
C30_OneInitializedInstance ==
    /\ sdk.constructed <= 1
    /\ \A c \in Returned :
          /\ initCalls[c].returned = Some(1)
          /\ initCalls[c].modalAtReturn = "ok"

====
